---- MODULE Spec2Model ----
(***************************************************************************)
(* TTR roster manager and invitation workflow of golf_messenger.           *)
(*                                                                         *)
(* The state is the relational store (ttrs, ttr_co_captains, ttr_players,  *)
(* invitations).  Every service method is an operator XxxCall(...) that    *)
(* walks the method's code top to bottom and yields the error the method   *)
(* returns and the store it leaves behind; the action named as the method  *)
(* applies it.  A rejected call leaves the store as it was, so what it     *)
(* returns is read off XxxCall in the state it is made in.                 *)
(*                                                                         *)
(* A store write may fail (lost connection, constraint violation).  The    *)
(* parameter f of a call says which of its writes fails for a reason the   *)
(* model does not compute: "none", "first" or "second".  Reads that fail   *)
(* reject a call before its first write and are left out.                  *)
(*                                                                         *)
(* Spec runs the calls one at a time, SpecNoFault does so over a store     *)
(* whose writes never fail, and SpecFlow runs the operations of the        *)
(* complete-flow scenario.  SpecRace and SpecCancelRace run requests side  *)
(* by side, every repository call of a method a step of its own, from the  *)
(* store CreateTTR (and one CreateInvitation) leaves.                      *)
(*                                                                         *)
(* The refresh tokens of AuthService are the table refresh_tokens:         *)
(* SpecAuth runs Login, RefreshToken and Logout one at a time while time   *)
(* passes, SpecAuthRace runs RefreshToken requests side by side.           *)
(***************************************************************************)
EXTENDS Integers, FiniteSets, Sequences, TLC

\* ------------------------------------------------------------------ bounds
MaxCapacity == 2        \* largest max_players a request supplies
MaxInvitations == 3     \* invitation ids the store can hand out
MaxFaults == 1          \* store writes that fail in one behaviour

MaxTokens == 3          \* refresh tokens generated in one behaviour

\* max_players of the tee time in the complete-flow scenario
FlowMaxPlayers == 4

\* -------------------------------------------------------------- identities
Users == {"A", "B", "C"}                 \* rows of the users table
UserIDs == Users \cup {"ghost"}          \* "ghost": a uuid with no users row
TTRIDs == {"t1"}
\* refresh tokens, named in the order they are generated
TokenIDs == 1..MaxTokens

InvitationIDs == 1..MaxInvitations

\* ------------------------------------------------------------ model values
TTRStatusOpen == "OPEN"
TTRStatusConfirmed == "CONFIRMED"
TTRStatusCancelled == "CANCELLED"
TTRStatusCompleted == "COMPLETED"

TTRPlayerStatusConfirmed == "CONFIRMED"
TTRPlayerStatusMaybe == "MAYBE"
TTRPlayerStatusDeclined == "DECLINED"

InvitationStatusPending == "PENDING"
InvitationStatusYes == "YES"
InvitationStatusNo == "NO"
InvitationStatusMaybe == "MAYBE"
InvitationStatusCanceled == "CANCELED"

\* Users are interchangeable, so the requests name them by the part they can
\* play: A creates the TTR, B and C are the users the captain delegates to, C
\* is the user who is invited.  Any user may call any operation.
Creators == {"A", "ghost"}
CoCaptainInputs == {"B", "C", "ghost"}
InviteeInputs == {"C", "ghost"}

\* what a request may carry
CapacityInputs == 0..MaxCapacity
TTRStatusInputs == {TTRStatusCancelled}
PlayerStatusInputs == {TTRPlayerStatusConfirmed, TTRPlayerStatusMaybe, "bogus"}
ResponseInputs == {InvitationStatusYes, InvitationStatusNo, InvitationStatusMaybe,
                   InvitationStatusPending}
Faults == {"none", "first", "second"}
OneWrite == {"none", "first"}

\* a nil pointer is the empty sequence, a set pointer a one-element sequence
Optional(S) == {<< >>} \cup {<<x>> : x \in S}

OK == "ok"

\* requests in flight: one per connection, each between two repository calls
Procs == {"p1", "p2"}

VARIABLES ttrs, coCaptains, players, invitations, faults, requests, refreshTokens

vars == <<ttrs, coCaptains, players, invitations, faults, requests, refreshTokens>>

\* a connection with no request under way.  A request holds what its method
\* holds in locals: the actor (user), the TTR id (t), the other user named
\* (arg), the *models.TTR and *models.Invitation it read (ttr, inv), the
\* repository call it makes next (pc) and, once returned, its error (err).
Idle == [op |-> "idle", pc |-> "done", user |-> "ghost", t |-> "t1", arg |-> "ghost",
         ttr |-> << >>, inv |-> << >>, err |-> "ok"]

\* ------------------------------------------------------------------- store
\* a ttrs row: row = "none" (no such id), "live", or "deleted" (deleted_at set)
NoTTR == [row |-> "none", captain |-> "ghost", creator |-> "ghost",
          maxPlayers |-> 0, status |-> TTRStatusOpen]

\* the rows the four tables can hold
TypeOK ==
    /\ ttrs \in [TTRIDs -> [row : {"none", "live", "deleted"}, captain : UserIDs,
                            creator : UserIDs,
                            maxPlayers : 0..(MaxCapacity + FlowMaxPlayers),
                            status : {TTRStatusOpen, TTRStatusConfirmed,
                                      TTRStatusCancelled, TTRStatusCompleted}]]
    /\ coCaptains \subseteq TTRIDs \X Users
    /\ players \subseteq [ttr : TTRIDs, user : Users,
                          status : {TTRPlayerStatusConfirmed, TTRPlayerStatusMaybe,
                                    TTRPlayerStatusDeclined}]
    /\ invitations \subseteq [id : InvitationIDs, ttr : TTRIDs, inviter : Users,
                              invitee : Users,
                              status : {InvitationStatusPending, InvitationStatusYes,
                                        InvitationStatusNo, InvitationStatusMaybe,
                                        InvitationStatusCanceled},
                              responded : BOOLEAN]
    /\ faults \in 0..MaxFaults
    /\ DOMAIN requests = Procs
    /\ \A p \in Procs :
         /\ DOMAIN requests[p] = DOMAIN Idle
         /\ requests[p].op \in {"idle", "JoinTTR", "RespondToInvitation",
                                "CreateInvitation", "CancelInvitation",
                                "RefreshToken"}
         /\ requests[p].user \in UserIDs
         /\ requests[p].t \in TTRIDs
         /\ Len(requests[p].ttr) <= 1
         /\ Len(requests[p].inv) <= 1
    /\ refreshTokens \subseteq [hash : {<<"sha256", k>> : k \in TokenIDs}, user : Users,
                                revoked : BOOLEAN, expired : BOOLEAN]

\* ttrRepository.FindByID: soft-deleted rows are not found
FindByID(t) == IF ttrs[t].row = "live" THEN <<ttrs[t]>> ELSE << >>

GetPlayers(t) == {p \in players : p.ttr = t}

\* IsPlayer finding no row
IsPlayerNever(t, u) == FALSE

IsPlayer(t, u) == \E p \in players : p.ttr = t /\ p.user = u

IsCoCaptain(t, u) == <<t, u>> \in coCaptains

\* the ttr_players table without its primary key
AddPlayerAllowedNoKey(P, t, u) == u \in Users

\* ttr_players: PRIMARY KEY (ttr_id, user_id), user_id REFERENCES users(id)
AddPlayerAllowed(P, t, u) ==
    /\ u \in Users
    /\ ~ \E p \in P : p.ttr = t /\ p.user = u

\* AddPlayer storing MAYBE whatever status it is given
AddPlayerAsMaybe(P, t, u, s) ==
    P \cup {[ttr |-> t, user |-> u, status |-> TTRPlayerStatusMaybe]}

AddPlayer(P, t, u, s) == P \cup {[ttr |-> t, user |-> u, status |-> s]}

\* RemovePlayer deleting no row
RemovePlayerKeeps(P, t, u) == P

RemovePlayer(P, t, u) == {p \in P : ~ (p.ttr = t /\ p.user = u)}

\* invitationRepository.FindByID
FindInvitation(i) == {v \in invitations : v.id = i}

\* the invitations table without its UNIQUE constraint
CreateInvitationAllowedNoUnique(t, inviter, invitee) ==
    /\ inviter \in Users
    /\ invitee \in Users

\* invitations: UNIQUE(ttr_id, invitee_user_id), both users REFERENCES users(id)
CreateInvitationAllowed(t, inviter, invitee) ==
    /\ inviter \in Users
    /\ invitee \in Users
    /\ ~ \E v \in invitations : v.ttr = t /\ v.invitee = invitee

\* invitationRepository.FindByTTRAndInvitee: First() orders by primary key
FindByTTRAndInvitee(t, u) ==
    LET M == {v \in invitations : v.ttr = t /\ v.invitee = u}
    IN  {v \in M : \A w \in M : v.id <= w.id}

\* invitationRepository.Update: Save() rewrites the row with this id
UpdateInvitation(v) == {w \in invitations : w.id # v.id} \cup {v}

\* the store a call leaves behind, and the error it returns
Outcome(e, T, C, P, I, h) ==
    [err |-> e, ttrs |-> T, coCaptains |-> C, players |-> P, invitations |-> I,
     hit |-> h]

Rejected(e) == Outcome(e, ttrs, coCaptains, players, invitations, FALSE)

\* ---------------------------------------------------------- TTRService
\* isCaptain taking a co-captain for the captain
isCaptainOrCoCaptain(t, u) ==
    FindByID(t) # << >> /\ (FindByID(t)[1].captain = u \/ IsCoCaptain(t, u))

isCaptain(t, u) == FindByID(t) # << >> /\ FindByID(t)[1].captain = u

\* canManageTTR forgetting the co-captains
canManageTTRCaptainOnly(t, u) == isCaptain(t, u)

canManageTTR(t, u) == isCaptain(t, u) \/ IsCoCaptain(t, u)

getPlayerCount(t) == Cardinality(GetPlayers(t))

CreateTTRCall(t, u, maxPlayers, f) ==
    IF maxPlayers <= 0 THEN Rejected("max_players must be greater than 0")
    ELSE IF u \notin Users THEN Rejected("user not found")
    ELSE IF f = "first"
    THEN Outcome("failed to create TTR", ttrs, coCaptains, players, invitations, TRUE)
    ELSE LET T == [ttrs EXCEPT ![t] = [row |-> "live", captain |-> u, creator |-> u,
                                       maxPlayers |-> maxPlayers,
                                       status |-> TTRStatusOpen]]
         IN  IF f = "second" \/ ~ AddPlayerAllowed(players, t, u)
             THEN Outcome("failed to add captain as player", T, coCaptains, players,
                          invitations, f = "second")
             ELSE Outcome(OK, T, coCaptains,
                          AddPlayer(players, t, u, TTRPlayerStatusConfirmed),
                          invitations, FALSE)

\* ttrRepo.Update is Save(ttr): it rewrites the ttrs row and upserts the
\* preloaded co-captain and player rows, which a call that runs alone finds
\* as it read them.  course name, location, date, time and notes are data no
\* code reads; status stands for them.
\* UpdateTTR saving the other supplied fields before it looks at max_players
UpdateTTRCallSaveThenCheck(t, u, maxPlayers, status, f) ==
    IF FindByID(t) = << >> THEN Rejected("failed to check permissions: TTR not found")
    ELSE IF ~ canManageTTR(t, u)
    THEN Rejected("unauthorized: only captain or co-captain can update TTR")
    ELSE IF f = "first"
    THEN Outcome("failed to update TTR", ttrs, coCaptains, players, invitations, TRUE)
    ELSE LET old == FindByID(t)[1]
             bad == maxPlayers # << >> /\ maxPlayers[1] <= 0
             new == [old EXCEPT
                       !.maxPlayers = IF maxPlayers # << >> /\ ~ bad
                                      THEN maxPlayers[1] ELSE @,
                       !.status = IF status # << >> THEN status[1] ELSE @]
         IN  Outcome(IF bad THEN "max_players must be greater than 0" ELSE OK,
                     [ttrs EXCEPT ![t] = new], coCaptains, players, invitations, FALSE)

UpdateTTRCall(t, u, maxPlayers, status, f) ==
    IF FindByID(t) = << >> THEN Rejected("failed to check permissions: TTR not found")
    ELSE IF ~ canManageTTR(t, u)
    THEN Rejected("unauthorized: only captain or co-captain can update TTR")
    ELSE IF maxPlayers # << >> /\ maxPlayers[1] <= 0
    THEN Rejected("max_players must be greater than 0")
    ELSE IF f = "first"
    THEN Outcome("failed to update TTR", ttrs, coCaptains, players, invitations, TRUE)
    ELSE LET old == FindByID(t)[1]
             new == [old EXCEPT
                       !.maxPlayers = IF maxPlayers # << >> THEN maxPlayers[1] ELSE @,
                       !.status = IF status # << >> THEN status[1] ELSE @]
         IN  Outcome(OK, [ttrs EXCEPT ![t] = new], coCaptains, players, invitations,
                     FALSE)

\* ttrRepository.Delete: models.TTR has a DeletedAt column, so the row is
\* kept with deleted_at set and no ON DELETE CASCADE fires
DeleteRow(t) == [ttrs EXCEPT ![t].row = "deleted"]

DeleteTTRCall(t, u, f) ==
    IF FindByID(t) = << >> THEN Rejected("failed to check captain status: TTR not found")
    ELSE IF ~ isCaptain(t, u) THEN Rejected("unauthorized: only captain can delete TTR")
    ELSE IF f = "first"
    THEN Outcome("failed to delete TTR", ttrs, coCaptains, players, invitations, TRUE)
    ELSE Outcome(OK, DeleteRow(t), coCaptains, players, invitations, FALSE)

AddCoCaptainCall(t, u, c, f) ==
    IF FindByID(t) = << >> THEN Rejected("failed to check captain status: TTR not found")
    ELSE IF ~ isCaptain(t, u)
    THEN Rejected("unauthorized: only captain can add co-captains")
    ELSE IF c \notin Users THEN Rejected("co-captain user not found")
    ELSE IF IsCoCaptain(t, c) THEN Rejected("user is already a co-captain")
    ELSE IF f = "first"
    THEN Outcome("failed to add co-captain", ttrs, coCaptains, players, invitations, TRUE)
    ELSE Outcome(OK, ttrs, coCaptains \cup {<<t, c>>}, players, invitations, FALSE)

RemoveCoCaptainCall(t, u, c, f) ==
    IF FindByID(t) = << >> THEN Rejected("failed to check captain status: TTR not found")
    ELSE IF ~ isCaptain(t, u)
    THEN Rejected("unauthorized: only captain can remove co-captains")
    ELSE IF f = "first"
    THEN Outcome("failed to remove co-captain", ttrs, coCaptains, players, invitations,
                 TRUE)
    ELSE Outcome(OK, ttrs, coCaptains \ {<<t, c>>}, players, invitations, FALSE)

\* the capacity check of JoinTTR, off by one
JoinFullOffByOne(t) == getPlayerCount(t) > FindByID(t)[1].maxPlayers

\* JoinTTR's capacity check
JoinFull(t) == getPlayerCount(t) >= FindByID(t)[1].maxPlayers

JoinTTRCall(t, u, f) ==
    IF FindByID(t) = << >> THEN Rejected("TTR not found")
    ELSE IF JoinFull(t) THEN Rejected("TTR is full")
    ELSE IF IsPlayer(t, u) THEN Rejected("user is already a player")
    ELSE IF f = "first" \/ ~ AddPlayerAllowed(players, t, u)
    THEN Outcome("failed to join TTR", ttrs, coCaptains, players, invitations,
                 f = "first")
    ELSE Outcome(OK, ttrs, coCaptains,
                 AddPlayer(players, t, u, TTRPlayerStatusConfirmed), invitations, FALSE)

\* LeaveTTR without its captain check
LeaveIsCaptainNever(t, u) == FALSE

\* LeaveTTR's captain check
LeaveIsCaptain(t, u) == FindByID(t)[1].captain = u

\* LeaveTTR deleting the row before it checks for the captain
LeaveTTRCallRemoveFirst(t, u, f) ==
    IF FindByID(t) = << >> THEN Rejected("TTR not found")
    ELSE IF f = "first"
    THEN Outcome("failed to leave TTR", ttrs, coCaptains, players, invitations, TRUE)
    ELSE Outcome(IF LeaveIsCaptain(t, u) THEN "captain cannot leave TTR" ELSE OK,
                 ttrs, coCaptains, RemovePlayer(players, t, u), invitations, FALSE)

LeaveTTRCall(t, u, f) ==
    IF FindByID(t) = << >> THEN Rejected("TTR not found")
    ELSE IF LeaveIsCaptain(t, u) THEN Rejected("captain cannot leave TTR")
    ELSE IF f = "first"
    THEN Outcome("failed to leave TTR", ttrs, coCaptains, players, invitations, TRUE)
    ELSE Outcome(OK, ttrs, coCaptains, RemovePlayer(players, t, u), invitations, FALSE)

\* validStatuses admitting any string
validPlayerStatusesAny ==
    {TTRPlayerStatusConfirmed, TTRPlayerStatusMaybe, TTRPlayerStatusDeclined, "bogus"}

validPlayerStatuses ==
    {TTRPlayerStatusConfirmed, TTRPlayerStatusMaybe, TTRPlayerStatusDeclined}

UpdatePlayerStatusCall(t, m, p, status, f) ==
    IF FindByID(t) = << >> THEN Rejected("failed to check permissions: TTR not found")
    ELSE IF ~ canManageTTR(t, m)
    THEN Rejected("unauthorized: only captain or co-captain can update player status")
    ELSE IF status \notin validPlayerStatuses THEN Rejected("invalid player status")
    ELSE IF ~ \E q \in GetPlayers(t) : q.user = p THEN Rejected("player not found in TTR")
    ELSE IF f = "first"
    THEN Outcome("failed to remove player", ttrs, coCaptains, players, invitations, TRUE)
    ELSE LET P == RemovePlayer(players, t, p)
         IN  IF f = "second" \/ ~ AddPlayerAllowed(P, t, p)
             THEN Outcome("failed to add player with new status", ttrs, coCaptains, P,
                          invitations, f = "second")
             ELSE Outcome(OK, ttrs, coCaptains, AddPlayer(P, t, p, status), invitations,
                          FALSE)

\* ---------------------------------------------------- InvitationService
\* uuid_generate_v4() hands out an unused id; ids are numbered in creation order
NewInvitationID == Cardinality(invitations) + 1

\* CreateInvitation without its duplicate check
CreatePendingExistsNever(t, invitee) == FALSE

\* CreateInvitation's duplicate check
CreatePendingExists(t, invitee) ==
    \E v \in FindByTTRAndInvitee(t, invitee) : v.status = InvitationStatusPending

\* CreateInvitation without its capacity check
CreateFullNever(t) == FALSE

\* CreateInvitation's capacity check at invite time
CreateFull(t) == Cardinality(GetPlayers(t)) >= FindByID(t)[1].maxPlayers

\* what CreateNotification can return to its caller: nil or an error
NotificationResults == {"nil", "error"}

\* NotificationService.CreateNotification: the stub logs and returns nil
CreateNotification == "nil"

\* CreateInvitation returning the notification's error, the stored
\* invitation rolled back
AfterNotificationFailing(o, n) ==
    IF n = "nil" THEN o ELSE Rejected("failed to create notification")

\* CreateInvitation after the insert: a notification error is logged and
\* the call goes on with the invitation it has stored
AfterNotification(o, n) == o

CreateInvitationNotify(t, inviter, invitee, f, n) ==
    IF FindByID(t) = << >> THEN Rejected("TTR not found")
    ELSE IF ~ (FindByID(t)[1].captain = inviter) /\ ~ IsCoCaptain(t, inviter)
    THEN Rejected("unauthorized: only captain or co-captain can send invitations")
    ELSE IF invitee \notin Users THEN Rejected("invitee user not found")
    ELSE IF CreateFull(t) THEN Rejected("TTR is full")
    ELSE IF IsPlayer(t, invitee) THEN Rejected("invitee is already a player in this TTR")
    ELSE IF CreatePendingExists(t, invitee)
    THEN Rejected("pending invitation already exists for this user")
    ELSE IF f = "first" \/ ~ CreateInvitationAllowed(t, inviter, invitee)
    THEN Outcome("failed to create invitation", ttrs, coCaptains, players, invitations,
                 f = "first")
    ELSE AfterNotification(
             Outcome(OK, ttrs, coCaptains, players,
                     invitations \cup {[id |-> NewInvitationID, ttr |-> t,
                                        inviter |-> inviter, invitee |-> invitee,
                                        status |-> InvitationStatusPending,
                                        responded |-> FALSE]},
                     FALSE),
             n)

\* CreateInvitation with the notification service it is built with
CreateInvitationCall(t, inviter, invitee, f) ==
    CreateInvitationNotify(t, inviter, invitee, f, CreateNotification)

validInvitationStatuses ==
    {InvitationStatusYes, InvitationStatusNo, InvitationStatusMaybe}

\* the tail of RespondToInvitation: invitationRepo.Update is write number w
RespondUpdate(v, P, f, w) ==
    IF f = w
    THEN Outcome("failed to update invitation", ttrs, coCaptains, P, invitations, TRUE)
    ELSE Outcome(OK, ttrs, coCaptains, P, UpdateInvitation(v), FALSE)

\* RespondToInvitation taking every answer for an acceptance
RespondJoinsAlways(status) == TRUE

\* RespondToInvitation: only an acceptance touches the TTR
RespondJoins(status) == status = InvitationStatusYes

\* the capacity check of RespondToInvitation, off by one
RespondFullOffByOne(t) == Cardinality(GetPlayers(t)) > FindByID(t)[1].maxPlayers

\* RespondToInvitation's capacity check at response time
RespondFull(t) == Cardinality(GetPlayers(t)) >= FindByID(t)[1].maxPlayers

\* RespondToInvitation letting the inviter answer as well
RespondNotInviteeNorInviter(v, u) == v.invitee # u /\ v.inviter # u

\* RespondToInvitation's actor check
RespondNotInvitee(v, u) == v.invitee # u

RespondToInvitationCall(i, u, status, f) ==
    IF status \notin validInvitationStatuses THEN Rejected("invalid invitation status")
    ELSE IF FindInvitation(i) = {} THEN Rejected("invitation not found")
    ELSE LET old == CHOOSE v \in FindInvitation(i) : TRUE
             new == [old EXCEPT !.status = status, !.responded = TRUE]
         IN  IF RespondNotInvitee(old, u)
             THEN Rejected("unauthorized: you can only respond to your own invitations")
             ELSE IF old.status # InvitationStatusPending
             THEN Rejected("invitation has already been responded to")
             ELSE IF ~ RespondJoins(status)
             THEN RespondUpdate(new, players, f, "first")
             ELSE IF FindByID(old.ttr) = << >> THEN Rejected("TTR not found")
             ELSE IF RespondFull(old.ttr)
             THEN Rejected("TTR is full, cannot accept invitation")
             ELSE IF f = "first" \/ ~ AddPlayerAllowed(players, old.ttr, u)
             THEN Outcome("failed to add player to TTR", ttrs, coCaptains, players,
                          invitations, f = "first")
             ELSE RespondUpdate(new,
                                AddPlayer(players, old.ttr, u, TTRPlayerStatusConfirmed),
                                f, "second")

\* CancelInvitation without its state check
CancelNotPendingNever(v) == FALSE

\* CancelInvitation's state check
CancelNotPending(v) == v.status # InvitationStatusPending

\* CancelInvitation letting the TTR's captain cancel as well
CancelNotInviterNorCaptain(v, u) == v.inviter # u /\ ttrs[v.ttr].captain # u

\* CancelInvitation's actor check
CancelNotInviter(v, u) == v.inviter # u

CancelInvitationCall(i, u, f) ==
    IF FindInvitation(i) = {} THEN Rejected("invitation not found")
    ELSE LET old == CHOOSE v \in FindInvitation(i) : TRUE
         IN  IF CancelNotInviter(old, u)
             THEN Rejected("unauthorized: only the inviter can cancel the invitation")
             ELSE IF CancelNotPending(old)
             THEN Rejected("only pending invitations can be canceled")
             ELSE IF f = "first"
             THEN Outcome("failed to cancel invitation", ttrs, coCaptains, players,
                          invitations, TRUE)
             ELSE Outcome(OK, ttrs, coCaptains, players,
                          UpdateInvitation([old EXCEPT !.status = InvitationStatusCanceled]),
                          FALSE)

Init ==
    /\ ttrs = [t \in TTRIDs |-> NoTTR]
    /\ coCaptains = {}
    /\ players = {}
    /\ invitations = {}
    /\ faults = 0
    /\ requests = [p \in Procs |-> Idle]
    /\ refreshTokens = {}

\* a failing write spends one of the MaxFaults
FaultAllowed(f) == f # "none" => faults < MaxFaults

\* the store takes the outcome of a call
Commit(o) ==
    /\ ttrs' = o.ttrs
    /\ coCaptains' = o.coCaptains
    /\ players' = o.players
    /\ invitations' = o.invitations
    /\ faults' = IF o.hit THEN faults + 1 ELSE faults
    /\ requests' = requests
    /\ refreshTokens' = refreshTokens

CreateTTR ==
    \E t \in TTRIDs, u \in Creators, m \in CapacityInputs, f \in Faults :
        /\ ttrs[t].row = "none"
        /\ FaultAllowed(f)
        /\ Commit(CreateTTRCall(t, u, m, f))

UpdateTTR ==
    \E t \in TTRIDs, u \in Users, m \in Optional(CapacityInputs),
       s \in Optional(TTRStatusInputs), f \in OneWrite :
        /\ FaultAllowed(f)
        /\ Commit(UpdateTTRCall(t, u, m, s, f))

DeleteTTR ==
    \E t \in TTRIDs, u \in Users, f \in OneWrite :
        /\ FaultAllowed(f)
        /\ Commit(DeleteTTRCall(t, u, f))

AddCoCaptain ==
    \E t \in TTRIDs, u \in Users, c \in CoCaptainInputs, f \in OneWrite :
        /\ FaultAllowed(f)
        /\ Commit(AddCoCaptainCall(t, u, c, f))

RemoveCoCaptain ==
    \E t \in TTRIDs, u \in Users, c \in CoCaptainInputs, f \in OneWrite :
        /\ FaultAllowed(f)
        /\ Commit(RemoveCoCaptainCall(t, u, c, f))

JoinTTR ==
    \E t \in TTRIDs, u \in Users, f \in OneWrite :
        /\ FaultAllowed(f)
        /\ Commit(JoinTTRCall(t, u, f))

LeaveTTR ==
    \E t \in TTRIDs, u \in Users, f \in OneWrite :
        /\ FaultAllowed(f)
        /\ Commit(LeaveTTRCall(t, u, f))

UpdatePlayerStatus ==
    \E t \in TTRIDs, m \in Users, p \in Users, s \in PlayerStatusInputs, f \in Faults :
        /\ FaultAllowed(f)
        /\ Commit(UpdatePlayerStatusCall(t, m, p, s, f))

\* the ids a request can name: every invitation's, and one that names none
LookupIDs == {v.id : v \in invitations} \cup {NewInvitationID}

CreateInvitation ==
    \E t \in TTRIDs, u \in Users, v \in InviteeInputs, f \in OneWrite :
        /\ NewInvitationID \in InvitationIDs
        /\ FaultAllowed(f)
        /\ Commit(CreateInvitationCall(t, u, v, f))

RespondToInvitation ==
    \E i \in LookupIDs, u \in Users, s \in ResponseInputs, f \in Faults :
        /\ FaultAllowed(f)
        /\ Commit(RespondToInvitationCall(i, u, s, f))

CancelInvitation ==
    \E i \in LookupIDs, u \in Users, f \in OneWrite :
        /\ FaultAllowed(f)
        /\ Commit(CancelInvitationCall(i, u, f))

Next ==
    \/ CreateTTR
    \/ UpdateTTR
    \/ DeleteTTR
    \/ AddCoCaptain
    \/ RemoveCoCaptain
    \/ JoinTTR
    \/ LeaveTTR
    \/ UpdatePlayerStatus
    \/ CreateInvitation
    \/ RespondToInvitation
    \/ CancelInvitation

Spec == Init /\ [][Next]_vars

\* the same calls over a store whose writes never fail: the failing writes
\* a behaviour may see are spent from the start
InitNoFault ==
    /\ ttrs = [t \in TTRIDs |-> NoTTR]
    /\ coCaptains = {}
    /\ players = {}
    /\ invitations = {}
    /\ faults = MaxFaults
    /\ requests = [p \in Procs |-> Idle]
    /\ refreshTokens = {}

SpecNoFault == InitNoFault /\ [][Next]_vars
\* ---------------------------------------------------- complete flow
\* The tee time of the complete-flow scenario, max_players = 4, and the
\* operations the scenario goes through, each with the inputs it draws
\* everywhere else; no write fails.
CreateTTRForFlow ==
    \E t \in TTRIDs, u \in Creators :
        /\ ttrs[t].row = "none"
        /\ Commit(CreateTTRCall(t, u, FlowMaxPlayers, "none"))

FlowNext ==
    \/ CreateTTRForFlow
    \/ AddCoCaptain
    \/ CreateInvitation
    \/ RespondToInvitation
    \/ UpdatePlayerStatus
    \/ LeaveTTR

SpecFlow == InitNoFault /\ [][FlowNext]_vars

\* ------------------------------------------------- interleaved requests
\* The handlers run on one goroutine per request and the service methods
\* hold no lock and open no transaction, so between any two repository
\* calls of one request any repository call of another may run.  Below,
\* every repository call of JoinTTR, RespondToInvitation and CreateInvitation
\* is a step of its own; the request keeps what it read in its locals.

\* who sends the requests: B and C join and answer, the captain invites
RaceActors == {"B", "C"}
RaceInviters == {"A"}
RaceResponses == {InvitationStatusYes}

\* the store after CreateTTR by A succeeded, no request under way
RaceInit ==
    /\ \E m \in 1..MaxCapacity :
         ttrs = [t \in TTRIDs |-> [row |-> "live", captain |-> "A", creator |-> "A",
                                   maxPlayers |-> m, status |-> TTRStatusOpen]]
    /\ coCaptains = {}
    /\ players = {[ttr |-> t, user |-> "A", status |-> TTRPlayerStatusConfirmed] :
                    t \in TTRIDs}
    /\ invitations = {}
    /\ faults = 0
    /\ requests = [p \in Procs |-> Idle]
    /\ refreshTokens = {}

\* the capacity check, off by one
RaceFullOffByOne(n, ttr) == n > ttr.maxPlayers

\* the capacity check all three methods make on the locals they hold:
\* len(players) >= ttr.MaxPlayers
RaceFull(n, ttr) == n >= ttr.maxPlayers

At(p, op, pc) == requests[p].op = op /\ requests[p].pc = pc

\* the request moves on to its next repository call
Goto(p, pc) == requests' = [requests EXCEPT ![p].pc = pc]

\* the method returns e
Return(p, e) == requests' = [requests EXCEPT ![p].pc = "done", ![p].err = e]

\* ---- JoinTTR
JoinTTR_FindByID ==
    \E p \in Procs, t \in TTRIDs, u \in RaceActors :
        /\ requests[p].pc = "done"
        /\ requests' = [requests EXCEPT ![p] =
               IF FindByID(t) = << >>
               THEN [Idle EXCEPT !.op = "JoinTTR", !.user = u, !.t = t,
                                 !.err = "TTR not found"]
               ELSE [Idle EXCEPT !.op = "JoinTTR", !.user = u, !.t = t,
                                 !.ttr = FindByID(t), !.pc = "getPlayerCount"]]
        /\ UNCHANGED <<ttrs, coCaptains, players, invitations, faults, refreshTokens>>

JoinTTR_getPlayerCount ==
    \E p \in Procs :
        /\ At(p, "JoinTTR", "getPlayerCount")
        /\ IF RaceFull(getPlayerCount(requests[p].t), requests[p].ttr[1])
           THEN Return(p, "TTR is full")
           ELSE Goto(p, "IsPlayer")
        /\ UNCHANGED <<ttrs, coCaptains, players, invitations, faults, refreshTokens>>

JoinTTR_IsPlayer ==
    \E p \in Procs :
        /\ At(p, "JoinTTR", "IsPlayer")
        /\ IF IsPlayer(requests[p].t, requests[p].user)
           THEN Return(p, "user is already a player")
           ELSE Goto(p, "AddPlayer")
        /\ UNCHANGED <<ttrs, coCaptains, players, invitations, faults, refreshTokens>>

JoinTTR_AddPlayer ==
    \E p \in Procs :
        /\ At(p, "JoinTTR", "AddPlayer")
        /\ IF AddPlayerAllowed(players, requests[p].t, requests[p].user)
           THEN /\ players' = AddPlayer(players, requests[p].t, requests[p].user,
                                        TTRPlayerStatusConfirmed)
                /\ Return(p, OK)
           ELSE /\ players' = players
                /\ Return(p, "failed to join TTR")
        /\ UNCHANGED <<ttrs, coCaptains, invitations, faults, refreshTokens>>

\* ---- RespondToInvitation
RespondToInvitation_FindByID ==
    \E p \in Procs, v \in invitations, u \in RaceActors, status \in RaceResponses :
        /\ requests[p].pc = "done"
        /\ LET r == [Idle EXCEPT !.op = "RespondToInvitation", !.user = u,
                                 !.t = v.ttr, !.arg = status]
           IN  requests' = [requests EXCEPT ![p] =
                   IF RespondNotInvitee(v, u)
                   THEN [r EXCEPT !.err = "unauthorized: you can only respond to your own invitations"]
                   ELSE IF v.status # InvitationStatusPending
                   THEN [r EXCEPT !.err = "invitation has already been responded to"]
                   ELSE [r EXCEPT !.inv = <<[v EXCEPT !.status = status,
                                                      !.responded = TRUE]>>,
                                  !.pc = IF RespondJoins(status) THEN "FindTTR"
                                         ELSE "Update"]]
        /\ UNCHANGED <<ttrs, coCaptains, players, invitations, faults, refreshTokens>>

RespondToInvitation_FindTTR ==
    \E p \in Procs :
        /\ At(p, "RespondToInvitation", "FindTTR")
        /\ IF FindByID(requests[p].t) = << >>
           THEN Return(p, "TTR not found")
           ELSE requests' = [requests EXCEPT ![p].ttr = FindByID(requests[p].t),
                                             ![p].pc = "GetPlayers"]
        /\ UNCHANGED <<ttrs, coCaptains, players, invitations, faults, refreshTokens>>

RespondToInvitation_GetPlayers ==
    \E p \in Procs :
        /\ At(p, "RespondToInvitation", "GetPlayers")
        /\ IF RaceFull(Cardinality(GetPlayers(requests[p].t)), requests[p].ttr[1])
           THEN Return(p, "TTR is full, cannot accept invitation")
           ELSE Goto(p, "AddPlayer")
        /\ UNCHANGED <<ttrs, coCaptains, players, invitations, faults, refreshTokens>>

RespondToInvitation_AddPlayer ==
    \E p \in Procs :
        /\ At(p, "RespondToInvitation", "AddPlayer")
        /\ IF AddPlayerAllowed(players, requests[p].t, requests[p].user)
           THEN /\ players' = AddPlayer(players, requests[p].t, requests[p].user,
                                        TTRPlayerStatusConfirmed)
                /\ Goto(p, "Update")
           ELSE /\ players' = players
                /\ Return(p, "failed to add player to TTR")
        /\ UNCHANGED <<ttrs, coCaptains, invitations, faults, refreshTokens>>

RespondToInvitation_Update ==
    \E p \in Procs :
        /\ At(p, "RespondToInvitation", "Update")
        /\ invitations' = UpdateInvitation(requests[p].inv[1])
        /\ Return(p, OK)
        /\ UNCHANGED <<ttrs, coCaptains, players, faults, refreshTokens>>

\* ---- CreateInvitation
CreateInvitation_FindByID ==
    \E p \in Procs, t \in TTRIDs, u \in RaceInviters, invitee \in RaceActors :
        /\ requests[p].pc = "done"
        /\ LET r == [Idle EXCEPT !.op = "CreateInvitation", !.user = u, !.t = t,
                                 !.arg = invitee]
           IN  requests' = [requests EXCEPT ![p] =
                   IF FindByID(t) = << >> THEN [r EXCEPT !.err = "TTR not found"]
                   ELSE [r EXCEPT !.ttr = FindByID(t), !.pc = "IsCoCaptain"]]
        /\ UNCHANGED <<ttrs, coCaptains, players, invitations, faults, refreshTokens>>

CreateInvitation_IsCoCaptain ==
    \E p \in Procs :
        /\ At(p, "CreateInvitation", "IsCoCaptain")
        /\ IF /\ ~ (requests[p].ttr[1].captain = requests[p].user)
              /\ ~ IsCoCaptain(requests[p].t, requests[p].user)
           THEN Return(p, "unauthorized: only captain or co-captain can send invitations")
           ELSE Goto(p, "FindUser")
        /\ UNCHANGED <<ttrs, coCaptains, players, invitations, faults, refreshTokens>>

CreateInvitation_FindUser ==
    \E p \in Procs :
        /\ At(p, "CreateInvitation", "FindUser")
        /\ IF requests[p].arg \notin Users
           THEN Return(p, "invitee user not found")
           ELSE Goto(p, "GetPlayers")
        /\ UNCHANGED <<ttrs, coCaptains, players, invitations, faults, refreshTokens>>

CreateInvitation_GetPlayers ==
    \E p \in Procs :
        /\ At(p, "CreateInvitation", "GetPlayers")
        /\ IF RaceFull(Cardinality(GetPlayers(requests[p].t)), requests[p].ttr[1])
           THEN Return(p, "TTR is full")
           ELSE Goto(p, "IsPlayer")
        /\ UNCHANGED <<ttrs, coCaptains, players, invitations, faults, refreshTokens>>

CreateInvitation_IsPlayer ==
    \E p \in Procs :
        /\ At(p, "CreateInvitation", "IsPlayer")
        /\ IF IsPlayer(requests[p].t, requests[p].arg)
           THEN Return(p, "invitee is already a player in this TTR")
           ELSE Goto(p, "FindByTTRAndInvitee")
        /\ UNCHANGED <<ttrs, coCaptains, players, invitations, faults, refreshTokens>>

CreateInvitation_FindByTTRAndInvitee ==
    \E p \in Procs :
        /\ At(p, "CreateInvitation", "FindByTTRAndInvitee")
        /\ IF CreatePendingExists(requests[p].t, requests[p].arg)
           THEN Return(p, "pending invitation already exists for this user")
           ELSE Goto(p, "Create")
        /\ UNCHANGED <<ttrs, coCaptains, players, invitations, faults, refreshTokens>>

CreateInvitation_Create ==
    \E p \in Procs :
        /\ At(p, "CreateInvitation", "Create")
        /\ NewInvitationID \in InvitationIDs
        /\ IF CreateInvitationAllowed(requests[p].t, requests[p].user, requests[p].arg)
           THEN /\ invitations' = invitations \cup
                      {[id |-> NewInvitationID, ttr |-> requests[p].t,
                        inviter |-> requests[p].user, invitee |-> requests[p].arg,
                        status |-> InvitationStatusPending, responded |-> FALSE]}
                /\ Return(p, OK)
           ELSE /\ invitations' = invitations
                /\ Return(p, "failed to create invitation")
        /\ UNCHANGED <<ttrs, coCaptains, players, faults, refreshTokens>>

RaceNext ==
    \/ JoinTTR_FindByID
    \/ JoinTTR_getPlayerCount
    \/ JoinTTR_IsPlayer
    \/ JoinTTR_AddPlayer
    \/ RespondToInvitation_FindByID
    \/ RespondToInvitation_FindTTR
    \/ RespondToInvitation_GetPlayers
    \/ RespondToInvitation_AddPlayer
    \/ RespondToInvitation_Update
    \/ CreateInvitation_FindByID
    \/ CreateInvitation_IsCoCaptain
    \/ CreateInvitation_FindUser
    \/ CreateInvitation_GetPlayers
    \/ CreateInvitation_IsPlayer
    \/ CreateInvitation_FindByTTRAndInvitee
    \/ CreateInvitation_Create

SpecRace == RaceInit /\ [][RaceNext]_vars

\* ---- CancelInvitation
CancelInvitation_FindByID ==
    \E p \in Procs, v \in invitations, u \in RaceInviters :
        /\ requests[p].pc = "done"
        /\ LET r == [Idle EXCEPT !.op = "CancelInvitation", !.user = u, !.t = v.ttr]
           IN  requests' = [requests EXCEPT ![p] =
                   IF CancelNotInviter(v, u)
                   THEN [r EXCEPT !.err = "unauthorized: only the inviter can cancel the invitation"]
                   ELSE IF CancelNotPending(v)
                   THEN [r EXCEPT !.err = "only pending invitations can be canceled"]
                   ELSE [r EXCEPT !.inv = <<[v EXCEPT
                                               !.status = InvitationStatusCanceled]>>,
                                  !.pc = "Update"]]
        /\ UNCHANGED <<ttrs, coCaptains, players, invitations, faults, refreshTokens>>

CancelInvitation_Update ==
    \E p \in Procs :
        /\ At(p, "CancelInvitation", "Update")
        /\ invitations' = UpdateInvitation(requests[p].inv[1])
        /\ Return(p, OK)
        /\ UNCHANGED <<ttrs, coCaptains, players, faults, refreshTokens>>

\* the store after CreateTTR by A and CreateInvitation of C by A succeeded,
\* no request under way
CancelRaceInit ==
    /\ \E m \in 1..MaxCapacity :
         ttrs = [t \in TTRIDs |-> [row |-> "live", captain |-> "A", creator |-> "A",
                                   maxPlayers |-> m, status |-> TTRStatusOpen]]
    /\ coCaptains = {}
    /\ players = {[ttr |-> t, user |-> "A", status |-> TTRPlayerStatusConfirmed] :
                    t \in TTRIDs}
    /\ invitations = {[id |-> 1, ttr |-> "t1", inviter |-> "A", invitee |-> "C",
                       status |-> InvitationStatusPending, responded |-> FALSE]}
    /\ faults = 0
    /\ requests = [p \in Procs |-> Idle]
    /\ refreshTokens = {}

CancelRaceNext ==
    \/ RespondToInvitation_FindByID
    \/ RespondToInvitation_FindTTR
    \/ RespondToInvitation_GetPlayers
    \/ RespondToInvitation_AddPlayer
    \/ RespondToInvitation_Update
    \/ CancelInvitation_FindByID
    \/ CancelInvitation_Update

SpecCancelRace == CancelRaceInit /\ [][CancelRaceNext]_vars

\* ------------------------------------------------------------ AuthService
\* who logs in, with which password, and the refresh tokens presented (a
\* token not generated yet is one the store has never seen)
LoginInputs == {"A", "B", "ghost"}
PasswordInputs == {"right", "wrong"}
TokenInputs == TokenIDs

\* jwt.HashRefreshToken: SHA-256 of the token, one hash per token
HashRefreshToken(tok) == <<"sha256", tok>>

\* jwt.GenerateRefreshToken: 32 random bytes, a token not generated before
GenerateRefreshToken(R) == Cardinality(R) + 1

FindByTokenHash(R, h) ==
    LET rows == {r \in R : r.hash = h}
    IN  IF rows = {} THEN << >> ELSE <<CHOOSE r \in rows : TRUE>>

\* RefreshToken.IsValid: not revoked and time.Now() not after ExpiresAt
IsValid(rt) == ~ rt.revoked /\ ~ rt.expired

\* RevokeByUserID revoking no row
RevokeByUserIDNothing(R, u) == R

\* refreshTokenRepository.RevokeByUserID
RevokeByUserID(R, u) == {[r EXCEPT !.revoked = (r.user = u) \/ @] : r \in R}

AuthOutcome(e, R, tok, h) == [err |-> e, refreshTokens |-> R, token |-> tok, hit |-> h]

AuthRejected(e) == AuthOutcome(e, refreshTokens, 0, FALSE)

\* AuthService.createTokenPair on the rows R: e is the error its caller
\* returns when the insert fails
createTokenPair(R, u, fails, e) ==
    IF fails THEN AuthOutcome(e, R, 0, TRUE)
    ELSE AuthOutcome(OK,
                     R \cup {[hash |-> HashRefreshToken(GenerateRefreshToken(R)),
                              user |-> u, revoked |-> FALSE, expired |-> FALSE]},
                     GenerateRefreshToken(R), FALSE)

LoginCall(u, password, f) ==
    IF u \notin Users \/ password # "right" THEN AuthRejected("invalid email or password")
    ELSE createTokenPair(refreshTokens, u, f = "first", "failed to create tokens")

RefreshTokenCall(tok, f) ==
    LET storedToken == FindByTokenHash(refreshTokens, HashRefreshToken(tok))
    IN  IF storedToken = << >> THEN AuthRejected("invalid refresh token")
        ELSE IF ~ IsValid(storedToken[1])
        THEN AuthRejected("refresh token is invalid or expired")
        ELSE IF f = "first"
        THEN AuthOutcome("failed to revoke old tokens", refreshTokens, 0, TRUE)
        ELSE createTokenPair(RevokeByUserID(refreshTokens, storedToken[1].user),
                             storedToken[1].user, f = "second",
                             "failed to create new tokens")

LogoutCall(tok, f) ==
    LET storedToken == FindByTokenHash(refreshTokens, HashRefreshToken(tok))
    IN  IF storedToken = << >> THEN AuthRejected("invalid refresh token")
        ELSE IF f = "first"
        THEN AuthOutcome("failed to revoke tokens", refreshTokens, 0, TRUE)
        ELSE AuthOutcome(OK, RevokeByUserID(refreshTokens, storedToken[1].user), 0,
                         FALSE)

\* the refresh_tokens table takes the outcome of a call
AuthCommit(o) ==
    /\ refreshTokens' = o.refreshTokens
    /\ faults' = IF o.hit THEN faults + 1 ELSE faults
    /\ UNCHANGED <<ttrs, coCaptains, players, invitations, requests>>

Login ==
    \E u \in LoginInputs, password \in PasswordInputs, f \in OneWrite :
        /\ GenerateRefreshToken(refreshTokens) \in TokenIDs
        /\ FaultAllowed(f)
        /\ AuthCommit(LoginCall(u, password, f))

RefreshToken ==
    \E tok \in TokenInputs, f \in Faults :
        /\ GenerateRefreshToken(refreshTokens) \in TokenIDs
        /\ FaultAllowed(f)
        /\ AuthCommit(RefreshTokenCall(tok, f))

Logout ==
    \E tok \in TokenInputs, f \in OneWrite :
        /\ FaultAllowed(f)
        /\ AuthCommit(LogoutCall(tok, f))

\* time passes the ExpiresAt of a token, and so of every token generated
\* before it (all tokens live for the same refreshDuration)
TimePasses ==
    \E k \in TokenIDs :
        /\ \E r \in refreshTokens : r.hash[2] <= k /\ ~ r.expired
        /\ refreshTokens' = {[r EXCEPT !.expired = (r.hash[2] <= k) \/ @] :
                               r \in refreshTokens}
        /\ UNCHANGED <<ttrs, coCaptains, players, invitations, faults, requests>>

AuthNext ==
    \/ Login
    \/ RefreshToken
    \/ Logout
    \/ TimePasses

SpecAuth == Init /\ [][AuthNext]_vars

\* ---- RefreshToken, one repository call at a time
\* A has logged in
AuthRaceInit ==
    /\ ttrs = [t \in TTRIDs |-> NoTTR]
    /\ coCaptains = {}
    /\ players = {}
    /\ invitations = {}
    /\ faults = 0
    /\ requests = [p \in Procs |-> Idle]
    /\ refreshTokens = {[hash |-> HashRefreshToken(1), user |-> "A",
                         revoked |-> FALSE, expired |-> FALSE]}

\* RefreshToken calls that have still to insert their new token
Refreshing == {p \in Procs : requests[p].op = "RefreshToken" /\ requests[p].pc # "done"}

RefreshToken_FindByTokenHash ==
    \E p \in Procs, tok \in TokenInputs :
        /\ requests[p].pc = "done"
        /\ Cardinality(refreshTokens) + Cardinality(Refreshing) < MaxTokens
        /\ LET storedToken == FindByTokenHash(refreshTokens, HashRefreshToken(tok))
               call == [Idle EXCEPT !.op = "RefreshToken", !.inv = storedToken]
           IN  requests' = [requests EXCEPT ![p] =
                   IF storedToken = << >>
                   THEN [call EXCEPT !.err = "invalid refresh token"]
                   ELSE IF ~ IsValid(storedToken[1])
                   THEN [call EXCEPT !.err = "refresh token is invalid or expired"]
                   ELSE [call EXCEPT !.pc = "RevokeByUserID"]]
        /\ UNCHANGED <<ttrs, coCaptains, players, invitations, faults, refreshTokens>>

RefreshToken_RevokeByUserID ==
    \E p \in Procs :
        /\ At(p, "RefreshToken", "RevokeByUserID")
        /\ refreshTokens' = RevokeByUserID(refreshTokens, requests[p].inv[1].user)
        /\ Goto(p, "createTokenPair")
        /\ UNCHANGED <<ttrs, coCaptains, players, invitations, faults>>

RefreshToken_createTokenPair ==
    \E p \in Procs :
        /\ At(p, "RefreshToken", "createTokenPair")
        /\ refreshTokens'
             = createTokenPair(refreshTokens, requests[p].inv[1].user, FALSE, OK)
                 .refreshTokens
        /\ Return(p, OK)
        /\ UNCHANGED <<ttrs, coCaptains, players, invitations, faults>>

AuthRaceNext ==
    \/ RefreshToken_FindByTokenHash
    \/ RefreshToken_RevokeByUserID
    \/ RefreshToken_createTokenPair
    \/ TimePasses

SpecAuthRace == AuthRaceInit /\ [][AuthRaceNext]_vars

\* ------------------------------------------------------------ properties
\* a call left the store exactly as it found it
Untouched(o) ==
    /\ o.ttrs = ttrs
    /\ o.coCaptains = coCaptains
    /\ o.players = players
    /\ o.invitations = invitations

\* this step is the call whose outcome is o
StepOf(o) == Commit(o)

RosterSize(o, t) == Cardinality({p \in o.players : p.ttr = t})

PendingFor(t, u) ==
    {v \in invitations :
        v.ttr = t /\ v.invitee = u /\ v.status = InvitationStatusPending}

\* C1: right after every successful JoinTTR, and after every successful
\* RespondToInvitation with YES, the TTR has at most maxPlayers players.
C1_CapacityAfterJoinOrAccept ==
    /\ \A t \in TTRIDs, u \in Users, f \in OneWrite :
         LET o == JoinTTRCall(t, u, f)
         IN  o.err = OK => RosterSize(o, t) <= o.ttrs[t].maxPlayers
    /\ \A v \in invitations, u \in Users, f \in Faults :
         LET o == RespondToInvitationCall(v.id, u, InvitationStatusYes, f)
         IN  o.err = OK => RosterSize(o, v.ttr) <= o.ttrs[v.ttr].maxPlayers

\* C1 witness: an accepted invitation whose invitee took the last seat.
C1_Witness ==
    \E v \in invitations :
        /\ v.status = InvitationStatusYes
        /\ IsPlayer(v.ttr, v.invitee)
        /\ FindByID(v.ttr) # << >>
        /\ getPlayerCount(v.ttr) = FindByID(v.ttr)[1].maxPlayers
        /\ JoinTTRCall(v.ttr, "B", "none").err = "TTR is full"

\* C2: in every reachable state every TTR has at most max_players players,
\* also after an UpdateTTR that supplies a smaller maxPlayers.
C2_RosterWithinCapacity ==
    \A t \in TTRIDs :
        ttrs[t].row # "none" => getPlayerCount(t) <= ttrs[t].maxPlayers

\* C3: every (TTR, invitee) pair has at most one PENDING invitation.
C3_OnePendingPerPair ==
    \A t \in TTRIDs, u \in UserIDs : Cardinality(PendingFor(t, u)) <= 1

\* C3 witness: a pair that was invited, answered, and has an invitation
\* again asked for by a manager while the store holds the answered one.
C3_Witness ==
    \E v \in invitations :
        /\ v.status \in {InvitationStatusNo, InvitationStatusMaybe,
                         InvitationStatusCanceled}
        /\ ~ CreatePendingExists(v.ttr, v.invitee)
        /\ CreateInvitationCall(v.ttr, v.inviter, v.invitee, "none").err
             = "failed to create invitation"
ErrPendingExists == "pending invitation already exists for this user"
ErrRespondFull == "TTR is full, cannot accept invitation"
ErrAlreadyResponded == "invitation has already been responded to"
ErrNotInvitee == "unauthorized: you can only respond to your own invitations"
ErrNotInviter == "unauthorized: only the inviter can cancel the invitation"
ErrCancelNotPending == "only pending invitations can be canceled"
ErrCaptainLeaves == "captain cannot leave TTR"

\* C4 as stated: CreateInvitation for a pair with a PENDING invitation, by the
\* captain or any co-captain, always fails with "pending invitation already
\* exists for this user" and creates no invitation.
C4_AlwaysPendingExists ==
    \A v \in invitations, inviter \in Users :
        (/\ v.status = InvitationStatusPending
         /\ FindByID(v.ttr) # << >>
         /\ canManageTTR(v.ttr, inviter))
        => LET o == CreateInvitationCall(v.ttr, inviter, v.invitee, "none")
           IN  o.err = ErrPendingExists /\ o.invitations = invitations

\* C4 amended: such a call always fails and creates no invitation, whoever
\* calls; it fails with "pending invitation already exists for this user"
\* when the TTR exists, the inviter is the captain or a co-captain, the roster
\* is not full and the invitee is not a player (the checks made before it).
C4_PendingExistsAfterEarlierChecks ==
    \A v \in invitations, inviter \in UserIDs, f \in OneWrite :
        v.status = InvitationStatusPending
        => LET o == CreateInvitationCall(v.ttr, inviter, v.invitee, f)
           IN  /\ o.err # OK
               /\ Untouched(o)
               /\ (/\ FindByID(v.ttr) # << >>
                   /\ canManageTTR(v.ttr, inviter)
                   /\ getPlayerCount(v.ttr) < FindByID(v.ttr)[1].maxPlayers
                   /\ ~ IsPlayer(v.ttr, v.invitee))
                  => o.err = ErrPendingExists

\* C4 witness: a co-captain who did not send the PENDING invitation is
\* refused a second one for the pair.
C4_Witness ==
    \E v \in invitations, inviter \in Users :
        /\ v.status = InvitationStatusPending
        /\ inviter # v.inviter
        /\ FindByID(v.ttr) # << >>
        /\ FindByID(v.ttr)[1].captain # inviter
        /\ IsCoCaptain(v.ttr, inviter)
        /\ CreateInvitationCall(v.ttr, inviter, v.invitee, "none").err
             = ErrPendingExists

\* C5: RespondToInvitation with YES by the invitee of a PENDING invitation
\* whose TTR is at capacity fails with "TTR is full, cannot accept
\* invitation" and leaves the invitation and the roster as they were.
C5_RespondYesWhenFull ==
    \A v \in invitations, f \in Faults :
        (/\ v.status = InvitationStatusPending
         /\ FindByID(v.ttr) # << >>
         /\ getPlayerCount(v.ttr) >= FindByID(v.ttr)[1].maxPlayers)
        => LET o == RespondToInvitationCall(v.id, v.invitee, InvitationStatusYes, f)
           IN  /\ o.err = ErrRespondFull
               /\ Untouched(o)
               /\ v \in o.invitations
               /\ ~ v.responded

\* C5 witness: a PENDING invitation whose TTR filled up after it was sent.
C5_Witness ==
    \E v \in invitations :
        /\ v.status = InvitationStatusPending
        /\ FindByID(v.ttr) # << >>
        /\ getPlayerCount(v.ttr) = FindByID(v.ttr)[1].maxPlayers
        /\ ~ IsPlayer(v.ttr, v.invitee)
        /\ RespondToInvitationCall(v.id, v.invitee, InvitationStatusYes, "none").err
             = ErrRespondFull

\* C6: a RespondToInvitation with YES that returns an error has changed
\* neither the roster nor the invitation.
C6_RespondYesAtomic ==
    [][\A v \in invitations, f \in Faults :
         LET o == RespondToInvitationCall(v.id, v.invitee, InvitationStatusYes, f)
         IN  (FaultAllowed(f) /\ StepOf(o) /\ o.err # OK)
             => (players' = players /\ invitations' = invitations)]_vars

\* C7: a successful RespondToInvitation with NO or MAYBE changes only that
\* invitation's status and respondedAt, and the invitee of a PENDING
\* invitation succeeds with it whether the TTR is full, deleted or neither.
C7_DeclineTouchesOnlyInvitation ==
    \A v \in invitations, u \in Users, f \in Faults,
       s \in {InvitationStatusNo, InvitationStatusMaybe} :
        LET o == RespondToInvitationCall(v.id, u, s, f)
        IN  /\ o.err = OK
               => /\ o.ttrs = ttrs
                  /\ o.coCaptains = coCaptains
                  /\ o.players = players
                  /\ o.invitations
                       = (invitations \ {v})
                           \cup {[v EXCEPT !.status = s, !.responded = TRUE]}
            /\ (v.status = InvitationStatusPending /\ u = v.invitee /\ f = "none")
               => o.err = OK

\* C7 witness: a PENDING invitation to a TTR that is deleted and whose
\* roster is at capacity, which its invitee can still decline.
C7_Witness ==
    \E v \in invitations :
        /\ v.status = InvitationStatusPending
        /\ ttrs[v.ttr].row = "deleted"
        /\ getPlayerCount(v.ttr) >= ttrs[v.ttr].maxPlayers
        /\ RespondToInvitationCall(v.id, v.invitee, InvitationStatusNo, "none").err = OK

\* C8 as stated: every RespondToInvitation and CancelInvitation call on a
\* non-PENDING invitation, by any actor, is rejected with InvalidOperation.
C8_AlwaysInvalidOperation ==
    \A v \in invitations, u \in Users, s \in validInvitationStatuses :
        v.status # InvitationStatusPending
        => /\ RespondToInvitationCall(v.id, u, s, "none").err = ErrAlreadyResponded
           /\ CancelInvitationCall(v.id, u, "none").err = ErrCancelNotPending

C8_Rejected ==
    \A v \in invitations, u \in Users, s \in ResponseInputs, f \in Faults :
        v.status # InvitationStatusPending
        => LET r == RespondToInvitationCall(v.id, u, s, f)
               c == CancelInvitationCall(v.id, u, f)
           IN  /\ r.err # OK /\ Untouched(r)
               /\ c.err # OK /\ Untouched(c)
               /\ s \in validInvitationStatuses
                  => r.err = IF u = v.invitee THEN ErrAlreadyResponded
                             ELSE ErrNotInvitee
               /\ c.err = IF u = v.inviter THEN ErrCancelNotPending ELSE ErrNotInviter

C8_Stable ==
    /\ \A v \in invitations : v.status # InvitationStatusPending => v \in invitations'
    /\ \A w \in invitations' :
         (\A v \in invitations : v.id # w.id)
         => (w.status = InvitationStatusPending /\ ~ w.responded)

\* C8 amended: an invitation starts PENDING and, once YES, NO, MAYBE or
\* CANCELED, never changes again; every RespondToInvitation and
\* CancelInvitation call on it is rejected and leaves it as it was, with
\* InvalidOperation when the caller is its invitee (responding with a valid
\* status) or its inviter (cancelling), and with Unauthorized when not.
C8_TerminalOnceResolved == [] C8_Rejected /\ [][C8_Stable]_vars

\* C8 witness: an invitation answered MAYBE or NO, which its invitee then
\* tries to accept and its inviter to cancel.
C8_Witness ==
    \E v \in invitations :
        /\ v.status \in {InvitationStatusMaybe, InvitationStatusNo}
        /\ RespondToInvitationCall(v.id, v.invitee, InvitationStatusYes, "none").err
             = ErrAlreadyResponded
        /\ CancelInvitationCall(v.id, v.inviter, "none").err = ErrCancelNotPending

\* C9: LeaveTTR by the TTR's captain always fails with "captain cannot leave
\* TTR" and leaves the roster as it was, also when the captain is the only
\* player.
C9_CaptainCannotLeave ==
    \A t \in TTRIDs, u \in Users, f \in OneWrite :
        (FindByID(t) # << >> /\ FindByID(t)[1].captain = u)
        => LET o == LeaveTTRCall(t, u, f)
           IN  o.err = ErrCaptainLeaves /\ Untouched(o)

\* C9 witness: a TTR whose captain is its only player and asks to leave.
C9_Witness ==
    \E t \in TTRIDs :
        /\ FindByID(t) # << >>
        /\ {p.user : p \in GetPlayers(t)} = {FindByID(t)[1].captain}
        /\ LeaveTTRCall(t, FindByID(t)[1].captain, "none").err = ErrCaptainLeaves

\* C10: AddCoCaptain, RemoveCoCaptain and DeleteTTR succeed only for the
\* TTR's captain; for anyone else, a co-captain included, they fail with
\* Unauthorized and change nothing.
C10_CaptainOnly ==
    \A t \in TTRIDs, u \in Users, c \in UserIDs, f \in OneWrite :
        LET a == AddCoCaptainCall(t, u, c, f)
            r == RemoveCoCaptainCall(t, u, c, f)
            d == DeleteTTRCall(t, u, f)
        IN  /\ (a.err = OK \/ r.err = OK \/ d.err = OK)
               => (FindByID(t) # << >> /\ FindByID(t)[1].captain = u)
            /\ (FindByID(t) # << >> /\ FindByID(t)[1].captain # u)
               => /\ a.err = "unauthorized: only captain can add co-captains"
                  /\ r.err = "unauthorized: only captain can remove co-captains"
                  /\ d.err = "unauthorized: only captain can delete TTR"
                  /\ Untouched(a) /\ Untouched(r) /\ Untouched(d)

\* C10 witness: a co-captain who is not the captain asks for all three.
C10_Witness ==
    \E t \in TTRIDs, u \in Users :
        /\ FindByID(t) # << >>
        /\ FindByID(t)[1].captain # u
        /\ IsCoCaptain(t, u)
        /\ AddCoCaptainCall(t, u, "B", "none").err
             = "unauthorized: only captain can add co-captains"
        /\ RemoveCoCaptainCall(t, u, u, "none").err
             = "unauthorized: only captain can remove co-captains"
        /\ DeleteTTRCall(t, u, "none").err = "unauthorized: only captain can delete TTR"

ErrUpdateTTRUnauthorized == "unauthorized: only captain or co-captain can update TTR"
ErrUpdatePlayerUnauthorized ==
    "unauthorized: only captain or co-captain can update player status"
ErrInviteUnauthorized ==
    "unauthorized: only captain or co-captain can send invitations"

\* t exists and u is neither its captain nor one of its co-captains
NotManager(t, u) ==
    ttrs[t].row = "live" /\ ttrs[t].captain # u /\ <<t, u>> \notin coCaptains

\* t exists and u is its captain or one of its co-captains
Manager(t, u) ==
    ttrs[t].row = "live" /\ (ttrs[t].captain = u \/ <<t, u>> \in coCaptains)

C11_UpdateTTR ==
    \A t \in TTRIDs, u \in UserIDs, m \in Optional(CapacityInputs),
       s \in Optional(TTRStatusInputs), f \in OneWrite :
        LET o == UpdateTTRCall(t, u, m, s, f)
        IN  /\ NotManager(t, u) => (o.err = ErrUpdateTTRUnauthorized /\ Untouched(o))
            /\ Manager(t, u) => o.err # ErrUpdateTTRUnauthorized
            /\ (Manager(t, u) /\ m = << >> /\ f = "none") => o.err = OK

C11_UpdatePlayerStatus ==
    \A t \in TTRIDs, u \in UserIDs, p \in UserIDs, s \in PlayerStatusInputs,
       f \in Faults :
        LET o == UpdatePlayerStatusCall(t, u, p, s, f)
        IN  /\ NotManager(t, u)
               => (o.err = ErrUpdatePlayerUnauthorized /\ Untouched(o))
            /\ Manager(t, u) => o.err # ErrUpdatePlayerUnauthorized
            /\ (Manager(t, u) /\ s \in validPlayerStatuses /\ IsPlayer(t, p)
                  /\ f = "none")
               => o.err = OK

C11_CreateInvitation ==
    \A t \in TTRIDs, u \in UserIDs, v \in UserIDs, f \in OneWrite :
        LET o == CreateInvitationCall(t, u, v, f)
        IN  /\ NotManager(t, u) => (o.err = ErrInviteUnauthorized /\ Untouched(o))
            /\ Manager(t, u) => o.err # ErrInviteUnauthorized

\* what a successful RemoveCoCaptain and AddCoCaptain leave of the role
C11_Delegation ==
    \A t \in TTRIDs, u \in Users, c \in Users, f \in OneWrite :
        LET add == AddCoCaptainCall(t, u, c, f)
            rem == RemoveCoCaptainCall(t, u, c, f)
        IN  /\ add.err = OK => (<<t, c>> \in add.coCaptains /\ add.ttrs = ttrs)
            /\ rem.err = OK => (<<t, c>> \notin rem.coCaptains /\ rem.ttrs = ttrs)

\* C11: on a TTR that exists, UpdateTTR, UpdatePlayerStatus and
\* CreateInvitation by an actor who is neither its captain nor one of its
\* co-captains return Unauthorized and change nothing, and are not refused
\* as unauthorized to an actor who is; a successful RemoveCoCaptain leaves
\* the removed user without the co-captain row and a successful AddCoCaptain
\* leaves the added user with it.
C11_ManagersOnly ==
    C11_UpdateTTR /\ C11_UpdatePlayerStatus /\ C11_CreateInvitation /\ C11_Delegation

\* C11 witness: a user who sent an invitation as co-captain and has been
\* removed since is refused, while another co-captain updates the TTR.
C11_Witness ==
    \E v \in invitations, c \in Users :
        /\ ttrs[v.ttr].row = "live"
        /\ ttrs[v.ttr].captain # v.inviter
        /\ <<v.ttr, v.inviter>> \notin coCaptains
        /\ UpdateTTRCall(v.ttr, v.inviter, <<1>>, <<>>, "none").err
             = ErrUpdateTTRUnauthorized
        /\ CreateInvitationCall(v.ttr, v.inviter, "C", "none").err
             = ErrInviteUnauthorized
        /\ c # ttrs[v.ttr].captain
        /\ <<v.ttr, c>> \in coCaptains
        /\ UpdateTTRCall(v.ttr, c, <<1>>, <<>>, "none").err = OK

\* C12: every successful CreateTTR by an actor yields a TTR whose creator and
\* captain are the actor, whose status is OPEN, whose max_players is the
\* positive number asked for, and whose roster is exactly the actor with
\* status CONFIRMED.
C12_CreateTTRYieldsCaptainRoster ==
    [][\A t \in TTRIDs, u \in UserIDs, m \in CapacityInputs, f \in Faults :
         LET o == CreateTTRCall(t, u, m, f)
         IN  (ttrs[t].row = "none" /\ FaultAllowed(f) /\ StepOf(o) /\ o.err = OK)
             => /\ m > 0
                /\ ttrs'[t] = [row |-> "live", captain |-> u, creator |-> u,
                               maxPlayers |-> m, status |-> TTRStatusOpen]
                /\ {p \in players' : p.ttr = t}
                     = {[ttr |-> t, user |-> u, status |-> TTRPlayerStatusConfirmed]}]_vars

\* C12 witness: the store right after a CreateTTR that succeeded.
C12_Witness ==
    \E t \in TTRIDs :
        /\ ttrs[t].row = "live"
        /\ ttrs[t].status = TTRStatusOpen
        /\ ttrs[t].captain = ttrs[t].creator
        /\ GetPlayers(t) = {[ttr |-> t, user |-> ttrs[t].captain,
                             status |-> TTRPlayerStatusConfirmed]}
        /\ coCaptains = {} /\ invitations = {}

\* C13: in every reachable state the captain of every existing TTR is in
\* that TTR's roster, also after a CreateTTR whose add-player step failed and
\* after an UpdatePlayerStatus on the captain whose reinsert failed.
C13_CaptainIsPlayer ==
    \A t \in TTRIDs : ttrs[t].row = "live" => IsPlayer(t, ttrs[t].captain)

ErrRespondAddPlayer == "failed to add player to TTR"

\* C14: every roster holds a user at most once in every reachable state, and
\* a YES from an invitee who is already a player fails and leaves the roster
\* as it was.
C14_OncePerRoster ==
    /\ \A t \in TTRIDs, u \in Users :
         Cardinality({p \in players : p.ttr = t /\ p.user = u}) <= 1
    /\ \A v \in invitations, f \in Faults :
         (v.status = InvitationStatusPending /\ IsPlayer(v.ttr, v.invitee))
         => LET o == RespondToInvitationCall(v.id, v.invitee, InvitationStatusYes, f)
            IN  o.err # OK /\ o.players = players

\* C14 witness: an invitee who joined through JoinTTR while the invitation
\* was PENDING answers YES to a TTR with a free seat, and the primary key of
\* ttr_players refuses the second row.
C14_Witness ==
    \E v \in invitations :
        /\ v.status = InvitationStatusPending
        /\ IsPlayer(v.ttr, v.invitee)
        /\ ttrs[v.ttr].row = "live"
        /\ getPlayerCount(v.ttr) < ttrs[v.ttr].maxPlayers
        /\ RespondToInvitationCall(v.id, v.invitee, InvitationStatusYes, "none").err
             = ErrRespondAddPlayer

\* C15: CancelInvitation succeeds only for the invitation's inviter while it
\* is PENDING, and then changes nothing but that invitation's status, to
\* CANCELED; any other actor gets Unauthorized, and the inviter of a
\* non-PENDING invitation gets InvalidOperation, both with nothing changed.
C15_CancelByInviterWhilePending ==
    \A v \in invitations, u \in UserIDs, f \in OneWrite :
        LET o == CancelInvitationCall(v.id, u, f)
        IN  /\ o.err = OK
               => /\ u = v.inviter
                  /\ v.status = InvitationStatusPending
                  /\ o.invitations
                       = (invitations \ {v})
                           \cup {[v EXCEPT !.status = InvitationStatusCanceled]}
                  /\ o.players = players
                  /\ o.ttrs = ttrs
                  /\ o.coCaptains = coCaptains
            /\ u # v.inviter => (o.err = ErrNotInviter /\ Untouched(o))
            /\ (u = v.inviter /\ v.status # InvitationStatusPending)
               => (o.err = ErrCancelNotPending /\ Untouched(o))
            /\ (u = v.inviter /\ v.status = InvitationStatusPending /\ f = "none")
               => o.err = OK

\* C15 witness: an invitation a co-captain sent and has canceled; the TTR's
\* captain asks to cancel it and is refused as not the inviter, the
\* co-captain asks again and is refused as it is no longer PENDING.
C15_Witness ==
    \E v \in invitations :
        /\ v.status = InvitationStatusCanceled
        /\ ~ v.responded
        /\ ttrs[v.ttr].captain # v.inviter
        /\ CancelInvitationCall(v.id, ttrs[v.ttr].captain, "none").err = ErrNotInviter
        /\ CancelInvitationCall(v.id, v.inviter, "none").err = ErrCancelNotPending

\* C16: RespondToInvitation with a valid status by any user other than the
\* invitation's invitee, its inviter and the TTR's captain included, fails
\* with Unauthorized and changes neither the invitation nor any roster.
C16_OnlyInviteeResponds ==
    \A v \in invitations, u \in UserIDs, s \in validInvitationStatuses, f \in Faults :
        u # v.invitee
        => LET o == RespondToInvitationCall(v.id, u, s, f)
           IN  o.err = ErrNotInvitee /\ Untouched(o) /\ v \in o.invitations

\* C16 witness: a PENDING invitation sent by a co-captain to a TTR with a
\* free seat, which the co-captain and the captain both try to accept.
C16_Witness ==
    \E v \in invitations :
        /\ v.status = InvitationStatusPending
        /\ ttrs[v.ttr].row = "live"
        /\ getPlayerCount(v.ttr) < ttrs[v.ttr].maxPlayers
        /\ ttrs[v.ttr].captain \notin {v.inviter, v.invitee}
        /\ RespondToInvitationCall(v.id, v.inviter, InvitationStatusYes, "none").err
             = ErrNotInvitee
        /\ RespondToInvitationCall(v.id, ttrs[v.ttr].captain, InvitationStatusYes,
                                   "none").err = ErrNotInvitee

ErrInviteAlreadyPlayer == "invitee is already a player in this TTR"

\* C17: CreateInvitation reports the first of its preconditions that fails,
\* in the order TTR exists, inviter can manage, invitee exists, roster not
\* full, invitee not a player, no PENDING invitation for the pair; whatever
\* the later ones would have said.
C17_FirstFailureWins ==
    \A t \in TTRIDs, inviter \in UserIDs, invitee \in UserIDs, f \in OneWrite :
        LET e == CreateInvitationCall(t, inviter, invitee, f).err
            exists == ttrs[t].row = "live"
            manages == ttrs[t].captain = inviter \/ <<t, inviter>> \in coCaptains
            known == invitee \in Users
            full == Cardinality({p \in players : p.ttr = t}) >= ttrs[t].maxPlayers
            plays == \E p \in players : p.ttr = t /\ p.user = invitee
            pending == PendingFor(t, invitee) # {}
        IN  /\ ~ exists => e = "TTR not found"
            /\ (exists /\ ~ manages) => e = ErrInviteUnauthorized
            /\ (exists /\ manages /\ ~ known) => e = "invitee user not found"
            /\ (exists /\ manages /\ known /\ full) => e = "TTR is full"
            /\ (exists /\ manages /\ known /\ ~ full /\ plays)
               => e = ErrInviteAlreadyPlayer
            /\ (exists /\ manages /\ known /\ ~ full /\ ~ plays /\ pending)
               => e = ErrPendingExists
            /\ e \in {"TTR not found", ErrInviteUnauthorized, "invitee user not found",
                      "TTR is full", ErrInviteAlreadyPlayer, ErrPendingExists}
               => ~ (exists /\ manages /\ known /\ ~ full /\ ~ plays /\ ~ pending)

\* C17 witness: a full roster whose invitee is already a player and still has
\* a PENDING invitation gets Full from the captain, and a user who manages
\* nothing gets Unauthorized for an invitee who does not exist.
C17_Witness ==
    \E t \in TTRIDs, u \in Users, w \in Users :
        /\ ttrs[t].row = "live"
        /\ getPlayerCount(t) >= ttrs[t].maxPlayers
        /\ IsPlayer(t, u)
        /\ PendingFor(t, u) # {}
        /\ CreateInvitationCall(t, ttrs[t].captain, u, "none").err = "TTR is full"
        /\ w # ttrs[t].captain
        /\ <<t, w>> \notin coCaptains
        /\ CreateInvitationCall(t, w, "ghost", "none").err = ErrInviteUnauthorized

\* the errors the handlers report as not found, forbidden or bad request
ValidationErrors ==
    {"TTR not found", "invitation not found", "user not found",
     "co-captain user not found", "invitee user not found", "player not found in TTR",
     "failed to check captain status: TTR not found",
     "failed to check permissions: TTR not found",
     "unauthorized: only captain can add co-captains",
     "unauthorized: only captain can remove co-captains",
     "unauthorized: only captain can delete TTR",
     ErrUpdateTTRUnauthorized, ErrUpdatePlayerUnauthorized, ErrInviteUnauthorized,
     ErrNotInvitee, ErrNotInviter,
     "max_players must be greater than 0", "invalid player status",
     "invalid invitation status",
     "user is already a co-captain", "user is already a player",
     ErrInviteAlreadyPlayer, ErrPendingExists,
     "TTR is full", ErrRespondFull,
     ErrCaptainLeaves, ErrAlreadyResponded, ErrCancelNotPending}

\* a call that returned one of them left the store as it was
Harmless(o) == o.err \in ValidationErrors => Untouched(o)

C18_TTRCalls ==
    \A t \in TTRIDs, u \in UserIDs :
        /\ \A m \in CapacityInputs, f \in Faults :
             ttrs[t].row = "none" => Harmless(CreateTTRCall(t, u, m, f))
        /\ \A m \in Optional(CapacityInputs), s \in Optional(TTRStatusInputs),
              f \in OneWrite : Harmless(UpdateTTRCall(t, u, m, s, f))
        /\ \A f \in OneWrite :
             /\ Harmless(DeleteTTRCall(t, u, f))
             /\ Harmless(JoinTTRCall(t, u, f))
             /\ Harmless(LeaveTTRCall(t, u, f))
        /\ \A c \in UserIDs, f \in OneWrite :
             /\ Harmless(AddCoCaptainCall(t, u, c, f))
             /\ Harmless(RemoveCoCaptainCall(t, u, c, f))
             /\ Harmless(CreateInvitationCall(t, u, c, f))
        /\ \A p \in UserIDs, s \in PlayerStatusInputs, f \in Faults :
             Harmless(UpdatePlayerStatusCall(t, u, p, s, f))

C18_InvitationCalls ==
    \A i \in LookupIDs, u \in UserIDs :
        /\ \A s \in ResponseInputs, f \in Faults :
             Harmless(RespondToInvitationCall(i, u, s, f))
        /\ \A f \in OneWrite : Harmless(CancelInvitationCall(i, u, f))

\* C18: every TTR, roster and invitation operation that returns a validation
\* or authorization error (not found, unauthorized, invalid argument, already
\* exists, full, invalid operation) leaves TTRs, co-captains, rosters and
\* invitations exactly as they were.
C18_RejectionChangesNothing == C18_TTRCalls /\ C18_InvitationCalls

\* C18 witness: a full TTR with a co-captain and a PENDING invitation, where
\* a zero capacity, an acceptance, a join, a second delegation and the
\* captain's leaving are each refused after the call has read the store.
C18_Witness ==
    \E v \in invitations, c \in Users :
        /\ v.status = InvitationStatusPending
        /\ ttrs[v.ttr].row = "live"
        /\ <<v.ttr, c>> \in coCaptains
        /\ UpdateTTRCall(v.ttr, c, <<0>>, <<TTRStatusCancelled>>, "none").err
             = "max_players must be greater than 0"
        /\ RespondToInvitationCall(v.id, v.invitee, InvitationStatusYes, "none").err
             = ErrRespondFull
        /\ JoinTTRCall(v.ttr, v.invitee, "none").err = "TTR is full"
        /\ AddCoCaptainCall(v.ttr, ttrs[v.ttr].captain, c, "none").err
             = "user is already a co-captain"
        /\ LeaveTTRCall(v.ttr, ttrs[v.ttr].captain, "none").err = ErrCaptainLeaves

\* requests that have passed a capacity check and not yet added their player
Admitted(t) ==
    {p \in Procs : /\ requests[p].t = t
                   /\ requests[p].pc = "AddPlayer"
                   /\ requests[p].op \in {"JoinTTR", "RespondToInvitation"}}

\* C19: with the repository calls of concurrent requests interleaved, a
\* roster goes over max_players only by requests that read it below capacity
\* before another's write landed: players plus admitted requests never
\* exceed max_players - 1 plus the number of connections, and two requests
\* facing one free seat do both add their player.
C19_OvershootByConcurrentRequests ==
    \A t \in TTRIDs :
        getPlayerCount(t) + Cardinality(Admitted(t))
            <= ttrs[t].maxPlayers - 1 + Cardinality(Procs)

\* C19 witness: two invitees answered YES at once to a TTR with one free
\* seat; both calls returned success and the roster is over capacity.
C19_Witness ==
    \E t \in TTRIDs :
        /\ getPlayerCount(t) > ttrs[t].maxPlayers
        /\ \A p \in Procs :
             /\ requests[p].op = "RespondToInvitation"
             /\ requests[p].pc = "done"
             /\ requests[p].err = OK
             /\ IsPlayer(t, requests[p].user)
        /\ \A p, q \in Procs : p # q => requests[p].user # requests[q].user
        /\ \A v \in invitations : v.status = InvitationStatusYes

ErrCreateFailed == "failed to create invitation"

\* C20 as stated: no store-level constraint stands behind CreateInvitation's
\* check, so every request that has passed the check persists its PENDING
\* invitation.
C20_CheckedCreatePersists ==
    \A p \in Procs :
        At(p, "CreateInvitation", "Create")
        => CreateInvitationAllowed(requests[p].t, requests[p].user, requests[p].arg)

\* C20 amended: two concurrent CreateInvitation calls for one pair can both
\* pass the check, but the store holds at most one invitation per (TTR,
\* invitee), so at most one PENDING one: a request that passed the check after
\* which another's invitation for the pair landed does not persist its own.
C20_StoreKeepsOnePerPair ==
    /\ \A v, w \in invitations : (v.ttr = w.ttr /\ v.invitee = w.invitee) => v = w
    /\ \A t \in TTRIDs, u \in UserIDs : Cardinality(PendingFor(t, u)) <= 1
    /\ \A p \in Procs :
         (/\ At(p, "CreateInvitation", "Create")
          /\ \E v \in invitations : v.ttr = requests[p].t /\ v.invitee = requests[p].arg)
         => ~ CreateInvitationAllowed(requests[p].t, requests[p].user, requests[p].arg)

\* C20 witness: two calls for one pair both passed the check; the first
\* insert succeeded and the second was refused by the store.
C20_Witness ==
    \E p, q \in Procs :
        /\ p # q
        /\ requests[p].op = "CreateInvitation" /\ requests[q].op = "CreateInvitation"
        /\ requests[p].pc = "done" /\ requests[q].pc = "done"
        /\ requests[p].t = requests[q].t /\ requests[p].arg = requests[q].arg
        /\ requests[p].err = OK
        /\ requests[q].err = ErrCreateFailed
        /\ Cardinality(PendingFor(requests[p].t, requests[p].arg)) = 1
        /\ Cardinality(invitations) = 1

\* C21: after a successful DeleteTTR the TTR is not found, no co-captain
\* row, player row or invitation of that TTR remains, and no later
\* RespondToInvitation or CancelInvitation on one of its invitations succeeds.
C21_DeleteCascades ==
    \A t \in TTRIDs :
        ttrs[t].row = "deleted"
        => /\ FindByID(t) = << >>
           /\ \A c \in coCaptains : c[1] # t
           /\ \A p \in players : p.ttr # t
           /\ \A v \in invitations :
                /\ v.ttr # t
                /\ \A u \in Users :
                     /\ CancelInvitationCall(v.id, u, "none").err # OK
                     /\ \A s \in ResponseInputs :
                          RespondToInvitationCall(v.id, u, s, "none").err # OK

\* the call succeeded and left exactly this store
Yields(o, T, C, P, I) ==
    o.err = OK /\ o.ttrs = T /\ o.coCaptains = C /\ o.players = P /\ o.invitations = I

\* the store is exactly this
StoreIs(T, C, P, I) ==
    ttrs = T /\ coCaptains = C /\ players = P /\ invitations = I

FlowTTRs == [t \in TTRIDs |-> IF t = "t1"
                              THEN [row |-> "live", captain |-> "A", creator |-> "A",
                                    maxPlayers |-> FlowMaxPlayers,
                                    status |-> TTRStatusOpen]
                              ELSE NoTTR]
FlowCoCaptains == {<<"t1", "B">>}
FlowPlayer(u, s) == [ttr |-> "t1", user |-> u, status |-> s]
FlowCaptainOnly == {FlowPlayer("A", TTRPlayerStatusConfirmed)}
FlowJoined == FlowCaptainOnly \cup {FlowPlayer("C", TTRPlayerStatusConfirmed)}
FlowMaybe == FlowCaptainOnly \cup {FlowPlayer("C", TTRPlayerStatusMaybe)}
FlowInvitation(i, s, r) ==
    {[id |-> 1, ttr |-> "t1", inviter |-> i, invitee |-> "C", status |-> s,
      responded |-> r]}
FlowPending(i) == FlowInvitation(i, InvitationStatusPending, FALSE)
FlowYes(i) == FlowInvitation(i, InvitationStatusYes, TRUE)
FlowManagers == {"A", "B"}

\* C22: along create TTR (max_players 4), captain adds co-captain B, the
\* captain or the co-captain invites C, C responds YES, a manager sets C to
\* MAYBE, C leaves: every step succeeds and leaves the store the next step
\* starts from, with 1, 1, 1, 2, 2, 1 players, the invitation PENDING after
\* the invite and YES after the response, C MAYBE after the update, and B
\* in no roster.
C22_CompleteFlow ==
    /\ StoreIs([t \in TTRIDs |-> NoTTR], {}, {}, {})
       => /\ Yields(CreateTTRCall("t1", "A", FlowMaxPlayers, "none"),
                    FlowTTRs, {}, FlowCaptainOnly, {})
          /\ Cardinality(FlowCaptainOnly) = 1
    /\ StoreIs(FlowTTRs, {}, FlowCaptainOnly, {})
       => Yields(AddCoCaptainCall("t1", "A", "B", "none"),
                 FlowTTRs, FlowCoCaptains, FlowCaptainOnly, {})
    /\ StoreIs(FlowTTRs, FlowCoCaptains, FlowCaptainOnly, {})
       => \A i \in FlowManagers :
            Yields(CreateInvitationCall("t1", i, "C", "none"),
                   FlowTTRs, FlowCoCaptains, FlowCaptainOnly, FlowPending(i))
    /\ \A i \in FlowManagers :
         /\ StoreIs(FlowTTRs, FlowCoCaptains, FlowCaptainOnly, FlowPending(i))
            => /\ Yields(RespondToInvitationCall(1, "C", InvitationStatusYes, "none"),
                         FlowTTRs, FlowCoCaptains, FlowJoined, FlowYes(i))
               /\ Cardinality(FlowJoined) = 2
         /\ StoreIs(FlowTTRs, FlowCoCaptains, FlowJoined, FlowYes(i))
            => /\ \A m \in FlowManagers :
                    Yields(UpdatePlayerStatusCall("t1", m, "C", TTRPlayerStatusMaybe,
                                                  "none"),
                           FlowTTRs, FlowCoCaptains, FlowMaybe, FlowYes(i))
               /\ Cardinality(FlowMaybe) = 2
         /\ StoreIs(FlowTTRs, FlowCoCaptains, FlowMaybe, FlowYes(i))
            => Yields(LeaveTTRCall("t1", "C", "none"),
                      FlowTTRs, FlowCoCaptains, FlowCaptainOnly, FlowYes(i))

\* C22 witness: the flow has come to its last step with the co-captain as
\* inviter: C is a MAYBE player through an accepted invitation, and leaves.
C22_Witness ==
    /\ StoreIs(FlowTTRs, FlowCoCaptains, FlowMaybe, FlowYes("B"))
    /\ getPlayerCount("t1") = 2
    /\ ~ IsPlayer("t1", "B")
    /\ LeaveTTRCall("t1", "C", "none").err = OK
    /\ Cardinality(GetPlayers("t1") \cap LeaveTTRCall("t1", "C", "none").players) = 1

ErrJoinFull == "TTR is full"
ErrJoinAlreadyPlayer == "user is already a player"

\* C23: JoinTTR by a user succeeds exactly when the TTR exists, its roster
\* has fewer than max_players rows and the user is not in it, and then the
\* roster is the old one plus the user as CONFIRMED; on an existing TTR it
\* fails with "TTR is full" when the roster is at capacity and with "user is
\* already a player" when the user is in a roster that is not full, the store
\* unchanged in both cases; the TTR's status plays no part.
C23_JoinContract ==
    \A t \in TTRIDs, u \in Users :
        LET o == JoinTTRCall(t, u, "none")
            exists == ttrs[t].row = "live"
            count == Cardinality({p \in players : p.ttr = t})
            member == \E p \in players : p.ttr = t /\ p.user = u
        IN  /\ o.err = OK <=> (exists /\ count < ttrs[t].maxPlayers /\ ~ member)
            /\ o.err = OK
               => /\ o.players
                       = players \cup {[ttr |-> t, user |-> u,
                                        status |-> TTRPlayerStatusConfirmed]}
                  /\ o.ttrs = ttrs
                  /\ o.coCaptains = coCaptains
                  /\ o.invitations = invitations
            /\ (exists /\ count >= ttrs[t].maxPlayers)
               => o.err = ErrJoinFull /\ Untouched(o)
            /\ (exists /\ count < ttrs[t].maxPlayers /\ member)
               => o.err = ErrJoinAlreadyPlayer /\ Untouched(o)

\* C23 witness: on a CANCELLED TTR with room, a non-player may join and a
\* player is told he is one.
C23_Witness ==
    \E t \in TTRIDs, u, w \in Users :
        /\ ttrs[t].row = "live"
        /\ ttrs[t].status = TTRStatusCancelled
        /\ getPlayerCount(t) < ttrs[t].maxPlayers
        /\ ~ IsPlayer(t, u)
        /\ JoinTTRCall(t, u, "none").err = OK
        /\ IsPlayer(t, w)
        /\ JoinTTRCall(t, w, "none").err = ErrJoinAlreadyPlayer

ErrInvalidPlayerStatus == "invalid player status"
ErrPlayerNotFound == "player not found in TTR"

\* the statuses a request may name: the three the service knows and one it
\* does not
C24_Statuses == PlayerStatusInputs \cup {TTRPlayerStatusDeclined}

\* C24: a successful UpdatePlayerStatus keeps the members of every roster and
\* the status of every player but the target, whose status becomes the new
\* one; a captain or co-captain gets "invalid player status" for a status
\* that is not CONFIRMED, MAYBE or DECLINED and "player not found in TTR" for
\* a target that is not in the roster; anyone else gets the unauthorized
\* error whatever the status and the target are.
C24_UpdatePlayerStatusContract ==
    \A t \in TTRIDs, m \in Users, p \in UserIDs, s \in C24_Statuses :
        LET o == UpdatePlayerStatusCall(t, m, p, s, "none")
            known == s \in {"CONFIRMED", "MAYBE", "DECLINED"}
            member == \E q \in players : q.ttr = t /\ q.user = p
        IN  /\ o.err = OK
               => /\ {<<q.ttr, q.user>> : q \in o.players}
                       = {<<q.ttr, q.user>> : q \in players}
                  /\ \A q \in players : (q.ttr # t \/ q.user # p) => q \in o.players
                  /\ \A q \in o.players : (q.ttr = t /\ q.user = p) => q.status = s
                  /\ Cardinality(o.players) = Cardinality(players)
                  /\ o.ttrs = ttrs
                  /\ o.coCaptains = coCaptains
                  /\ o.invitations = invitations
            /\ (Manager(t, m) /\ ~ known)
               => o.err = ErrInvalidPlayerStatus /\ Untouched(o)
            /\ (Manager(t, m) /\ known /\ ~ member)
               => o.err = ErrPlayerNotFound /\ Untouched(o)
            /\ (Manager(t, m) /\ known /\ member) => o.err = OK
            /\ NotManager(t, m)
               => o.err = ErrUpdatePlayerUnauthorized /\ Untouched(o)

\* C24 witness: a roster of two, one of them not CONFIRMED; a co-captain
\* changes the other's status, and is refused an unknown status and a target
\* outside the roster, while a non-manager is refused all three.
C24_Witness ==
    \E t \in TTRIDs, m, n, p, q \in Users :
        /\ ttrs[t].row = "live"
        /\ IsCoCaptain(t, m)
        /\ NotManager(t, n)
        /\ p # q
        /\ [ttr |-> t, user |-> p, status |-> TTRPlayerStatusConfirmed] \in players
        /\ [ttr |-> t, user |-> q, status |-> TTRPlayerStatusMaybe] \in players
        /\ UpdatePlayerStatusCall(t, m, p, TTRPlayerStatusDeclined, "none").err = OK
        /\ UpdatePlayerStatusCall(t, m, p, "bogus", "none").err = ErrInvalidPlayerStatus
        /\ UpdatePlayerStatusCall(t, m, "ghost", TTRPlayerStatusMaybe, "none").err
             = ErrPlayerNotFound
        /\ UpdatePlayerStatusCall(t, n, "ghost", "bogus", "none").err
             = ErrUpdatePlayerUnauthorized

ErrMaxPlayers == "max_players must be greater than 0"

\* C25: a successful UpdateTTR sets max_players and status to the supplied
\* values, keeps each of the two that was omitted, and changes nothing else:
\* captain, creator, co-captains, rosters and invitations stay; with a
\* supplied max_players <= 0 a captain or co-captain gets "max_players must
\* be greater than 0" and nothing is stored, a status supplied in the same
\* call included.
C25_UpdateTTRFrame ==
    \A t \in TTRIDs, u \in Users, m \in Optional(CapacityInputs),
       s \in Optional({TTRStatusCancelled, TTRStatusCompleted}) :
        LET o == UpdateTTRCall(t, u, m, s, "none")
        IN  /\ o.err = OK
               => /\ o.ttrs[t].maxPlayers
                       = IF m = << >> THEN ttrs[t].maxPlayers ELSE m[1]
                  /\ o.ttrs[t].status = IF s = << >> THEN ttrs[t].status ELSE s[1]
                  /\ o.ttrs[t].captain = ttrs[t].captain
                  /\ o.ttrs[t].creator = ttrs[t].creator
                  /\ o.ttrs[t].row = ttrs[t].row
                  /\ \A x \in TTRIDs \ {t} : o.ttrs[x] = ttrs[x]
                  /\ o.coCaptains = coCaptains
                  /\ o.players = players
                  /\ o.invitations = invitations
            /\ (Manager(t, u) /\ m # << >> /\ m[1] <= 0)
               => o.err = ErrMaxPlayers /\ Untouched(o)
            /\ (Manager(t, u) /\ (m = << >> \/ m[1] > 0)) => o.err = OK

\* C25 witness: a TTR whose status an update has set, with a co-captain and
\* a second player; the co-captain's update of the status alone succeeds,
\* and with max_players 0 beside the status it is refused.
C25_Witness ==
    \E t \in TTRIDs, u \in Users :
        /\ ttrs[t].row = "live"
        /\ ttrs[t].status = TTRStatusCancelled
        /\ IsCoCaptain(t, u)
        /\ getPlayerCount(t) = 2
        /\ UpdateTTRCall(t, u, << >>, <<TTRStatusCompleted>>, "none").err = OK
        /\ UpdateTTRCall(t, u, <<0>>, <<TTRStatusCompleted>>, "none").err = ErrMaxPlayers

\* the six preconditions of CreateInvitation hold
C26_Preconditions(t, inviter, invitee) ==
    /\ ttrs[t].row = "live"
    /\ ttrs[t].captain = inviter \/ <<t, inviter>> \in coCaptains
    /\ invitee \in Users
    /\ Cardinality({p \in players : p.ttr = t}) < ttrs[t].maxPlayers
    /\ ~ \E p \in players : p.ttr = t /\ p.user = invitee
    /\ PendingFor(t, invitee) = {}

\* the call returned nil and stored one more invitation, PENDING, for the
\* pair, beside those there were
C26_Persisted(o, t, inviter, invitee) ==
    /\ o.err = OK
    /\ invitations \subseteq o.invitations
    /\ \E v \in o.invitations \ invitations :
         /\ o.invitations = invitations \cup {v}
         /\ v.ttr = t /\ v.inviter = inviter /\ v.invitee = invitee
         /\ v.status = InvitationStatusPending
    /\ o.ttrs = ttrs /\ o.coCaptains = coCaptains /\ o.players = players

RowsOf(R, tok) == {r \in R : r.hash = HashRefreshToken(tok)}

\* C27, the exchange: a RefreshToken call that succeeds was given a token
\* that is stored, not revoked and not expired; the token it returns is
\* another one, stored for the same user, not revoked and not expired; every
\* other token of that user, the one presented included, is revoked, and the
\* tokens of other users are as they were.  A revoked or expired token is
\* refused and the table stays as it is.
C27_Exchange ==
    \A tok \in TokenInputs, f \in Faults :
        LET o == RefreshTokenCall(tok, f)
            rows == RowsOf(refreshTokens, tok)
        IN  /\ o.err = OK
               => /\ rows # {}
                  /\ \A r \in rows : ~ r.revoked /\ ~ r.expired
                  /\ o.token # tok
                  /\ RowsOf(refreshTokens, o.token) = {}
                  /\ \A r \in rows :
                       /\ RowsOf(o.refreshTokens, o.token)
                            = {[hash |-> HashRefreshToken(o.token), user |-> r.user,
                                revoked |-> FALSE, expired |-> FALSE]}
                       /\ \A q \in o.refreshTokens :
                            (q.user = r.user /\ q.hash # HashRefreshToken(o.token))
                            => q.revoked
                       /\ {q \in o.refreshTokens : q.user # r.user}
                            = {q \in refreshTokens : q.user # r.user}
                  /\ \A q \in RowsOf(o.refreshTokens, tok) : q.revoked
                  /\ RowsOf(o.refreshTokens, tok) # {}
            /\ (\E r \in rows : r.revoked \/ r.expired)
               => /\ o.err = "refresh token is invalid or expired"
                  /\ o.refreshTokens = refreshTokens

\* C27, afterwards: a stored token stays stored, a revoked one stays revoked
\* and an expired one stays expired, whatever is called next.
C27_RevokedStays ==
    \A r \in refreshTokens :
        \E q \in refreshTokens' :
            /\ q.hash = r.hash
            /\ q.user = r.user
            /\ r.revoked => q.revoked
            /\ r.expired => q.expired

\* C27: refresh tokens rotate.  In every state a successful RefreshToken(t)
\* returns a new valid token and leaves t and the user's other tokens
\* revoked, a revoked or expired token is never exchanged, and no later step
\* makes a revoked or expired token valid again, so every later
\* RefreshToken(t) fails.
C27_RefreshTokensRotate == [](C27_Exchange) /\ [][C27_RevokedStays]_vars

\* C27 witness: A's first token has been exchanged for a second one, B holds
\* a token of his own; A's first token is refused and the second can be
\* exchanged in its turn.
C27_Witness ==
    /\ RowsOf(refreshTokens, 1)
         = {[hash |-> HashRefreshToken(1), user |-> "A", revoked |-> TRUE,
             expired |-> FALSE]}
    /\ RowsOf(refreshTokens, 2)
         = {[hash |-> HashRefreshToken(2), user |-> "A", revoked |-> FALSE,
             expired |-> FALSE]}
    /\ \E r \in refreshTokens : r.user = "B" /\ ~ r.revoked
    /\ RefreshTokenCall(1, "none").err = "refresh token is invalid or expired"
    /\ RefreshTokenCall(2, "none").err = OK
    /\ RefreshTokenCall(2, "none").token = 4

\* the RefreshToken call of connection p has returned a new pair for tok
Exchanged(p, tok) ==
    /\ requests[p].op = "RefreshToken"
    /\ requests[p].pc = "done"
    /\ requests[p].err = OK
    /\ requests[p].inv # << >>
    /\ requests[p].inv[1].hash = HashRefreshToken(tok)

\* C29: of two RefreshToken calls presenting the same valid token, however
\* their repository calls interleave, at most one succeeds, and once both
\* have returned the user holds at most one token that is not revoked.
C29_ExchangedAtMostOnce ==
    /\ \A tok \in TokenInputs :
         \A p, q \in Procs : (Exchanged(p, tok) /\ Exchanged(q, tok)) => p = q
    /\ Refreshing = {}
       => \A u \in Users :
            Cardinality({r \in refreshTokens : r.user = u /\ ~ r.revoked}) <= 1

\* connection p has returned from op on invitation i without an error
Succeeded(p, op, i) ==
    /\ requests[p].op = op
    /\ requests[p].pc = "done"
    /\ requests[p].err = OK
    /\ requests[p].inv # << >>
    /\ requests[p].inv[1].id = i

\* C28: of a RespondToInvitation by the invitee and a CancelInvitation by the
\* inviter on the same PENDING invitation, however their repository calls
\* interleave, at most one succeeds, and once no request is under way the
\* invitee is in the roster only if the invitation is YES.
C28_RespondOrCancel ==
    /\ \A v \in invitations :
         \A p, q \in Procs :
            ~ (/\ Succeeded(p, "RespondToInvitation", v.id)
               /\ Succeeded(q, "CancelInvitation", v.id))
    /\ (\A p \in Procs : requests[p].pc = "done")
       => \A v \in invitations :
            IsPlayer(v.ttr, v.invitee) => v.status = InvitationStatusYes

\* C30: once the invitation of a (TTR, invitee) pair is NO, MAYBE or
\* CANCELED, a CreateInvitation for the pair whose other preconditions hold
\* succeeds, stores a new PENDING invitation and leaves the old one as it is.
C30_ResolvedDoesNotBlock ==
    \A v \in invitations, inviter \in Users :
        (/\ v.status \in {InvitationStatusNo, InvitationStatusMaybe,
                          InvitationStatusCanceled}
         /\ C26_Preconditions(v.ttr, inviter, v.invitee))
        => LET o == CreateInvitationCall(v.ttr, inviter, v.invitee, "none")
           IN  /\ o.err = OK
               /\ v \in o.invitations
               /\ \E w \in o.invitations \ invitations :
                    /\ w.ttr = v.ttr
                    /\ w.invitee = v.invitee
                    /\ w.status = InvitationStatusPending
====
